---- MODULE Spec2Model ----
(***************************************************************************)
(* Model of src/lib/buienradar.js: one Buienradar instance, its location   *)
(* state, the two-endpoint rain fetch race with its 5 second timer, the    *)
(* rain parser with its TTL cache, the feed cache and the nearest weather  *)
(* station lookup.                                                         *)
(*                                                                         *)
(* Coordinates are integers in hundredths of a degree after rounding       *)
(* (inputs are thousandths of a degree).  Times are minutes: "now" and the *)
(* HH:MM token are minutes since today's local midnight, and a sample's    *)
(* timestamp is minutes since today's midnight (so >= DayMinutes means     *)
(* tomorrow).  Timer durations are abstracted to the order in which the    *)
(* timer callbacks run.                                                    *)
(***************************************************************************)
EXTENDS Integers, Sequences, FiniteSets, TLC

VARIABLES
    lat, lon,                 \* this.lat, this.lon
    usedLatLon,               \* <<this._lat, this._lon>>, <<>> while undefined
    requestCacheTimeout,      \* this.requestCacheTimeout
    rainData,                 \* this.rainData
    rainDataCacheTimeout,     \* this.rainDataCacheTimeout: handle of the last TTL timer
    rainTimers,               \* pending TTL timers of the rain cache (handles)
    rainDataCache,            \* closure variable rainDataCache
    nearestWeatherStationId,  \* closure variable nearestWeatherStationId
    calls,                    \* the getRainData calls that went to getRawRainData
    ncalls,                   \* how many of them were made
    last,                     \* the last operation that ran and what it returned
    feedDoc,                  \* the document the feed host serves: its station list, or
                              \* (forecast side) its verwachting_meerdaags element
    feedDataCache,            \* closure variable feedDataCache: a promise (its number) or null
    feeds,                    \* the promises getFeedData created
    nfeeds,                   \* how many of them were created
    feedTimers,               \* pending TTL timers of the feed cache (number of the promise)
    lookups,                  \* getNearestWeatherStationData calls waiting for their feed promise
    parse                     \* input and output of one run of a pure function
                              \* (the rain parser, getRainIndication)

rainVars == <<lat, lon, usedLatLon, requestCacheTimeout, rainData, rainDataCacheTimeout,
              rainTimers, rainDataCache, nearestWeatherStationId, calls, ncalls, last>>

feedVars == <<feedDoc, feedDataCache, feeds, nfeeds, feedTimers, lookups>>

vars == <<rainVars, feedVars, parse>>

----------------------------------------------------------------------------
(* Bounds *)

MaxCalls == 2
MaxFeeds == 2
MaxLookups == 1
MaxDays == 3

CallIds == 1..MaxCalls
FeedIds == 1..MaxFeeds

\* setLatLon / constructor inputs, in thousandths of a degree
LatInputs == {52221, 52226}
LonInputs == {6894}

\* setLatLon inputs that include the equator (latitude 0)
ZeroLatInputs == {0, 52221}

\* config.requestCacheTimeout as given: 0 stands for "absent"
TimeoutInputs == {0}

\* Date.now() when a reply is parsed, and the HH:MM of a body's first token, in
\* minutes since midnight (23:50 and 00:05)
Nows == {1430}
TokenTimes == {5}

\* number of (value|time) tokens in an endpoint body that matches rainDataRegex
TokenCounts == {1, 2}

\* the parser on its own: Date.now() and the first token's HH:MM every ClockStep
\* minutes of the day and at 00:05, 12:05, 12:06 and 23:50; up to MaxTokens tokens
ClockStep == 15
MaxTokens == 3
ClockTimes == {m \in 0..1439 : m % ClockStep = 0} \cup {5, 725, 726, 1430}

\* the arguments of getRainIndication: amounts in thousandths of a mm every
\* AmountStep up to MaxAmountSteps steps, the amounts around each threshold, a
\* negative amount, and the arguments that are no number
AmountStep == 5000
MaxAmountSteps == 12
AmountInputs ==
    [kind : {"number"},
     v : {k * AmountStep : k \in 0..MaxAmountSteps}
           \cup {-100, 99, 100, 101, 2499, 2500, 9999, 10000, 49999, 50000, 50999, 51000}]
    \cup {[kind |-> "NaN"], [kind |-> "undefined"], [kind |-> "text"]}

----------------------------------------------------------------------------
(* Values *)

Null == [tag |-> "null"]
Pending == [tag |-> "pending"]
Rejected(err) == [tag |-> "rejected", err |-> err]
Resolved(v) == [tag |-> "resolved", value |-> v]

DefaultCacheTimeout == 1000
HalfDayMinutes == 720
DayMinutes == 1440
SampleStep == 5

\* Math.round(x * 100) / 100 on an input in thousandths, result in hundredths
Round2(x) == (x + 5) \div 10

\* config.requestCacheTimeout || 1000
CacheTimeoutOf(cfg) == IF cfg = 0 THEN DefaultCacheTimeout ELSE cfg

----------------------------------------------------------------------------
(* Location state *)

\* resetCache that leaves the memoized station id alone
resetCacheKeepsStationId ==
    /\ rainDataCache' = "null"
    /\ UNCHANGED nearestWeatherStationId

\* resetCache: clears the two closure variables (and not this.rainData)
resetCache ==
    /\ rainDataCache' = "null"
    /\ nearestWeatherStationId' = Null

\* checkLocationChange
checkLocationChange ==
    IF usedLatLon # <<lat, lon>>
    THEN /\ usedLatLon' = <<lat, lon>>
         /\ resetCache
    ELSE UNCHANGED <<usedLatLon, rainDataCache, nearestWeatherStationId>>

\* hasLocation
hasLocation == lat \in Int /\ lon \in Int

\* setLatLon(lat, lon) with numbers (form "pair") or setLatLon({lat, lon}) (form "object")
SetLatLon(form, la, lo) ==
    LET unpack == form = "object" /\ la # 0          \* !lon && lat && lat.lat
        isNaN  == form = "object" /\ ~unpack         \* isNaN(lat) || isNaN(lon)
    IN  IF isNaN
        THEN /\ last' = [op |-> "setLatLon", changed |-> FALSE, hadId |-> FALSE]
             /\ UNCHANGED <<lat, lon, usedLatLon, rainDataCache, nearestWeatherStationId>>
        ELSE /\ lat' = Round2(la)
             /\ lon' = Round2(lo)
             /\ resetCache
             /\ last' = [op |-> "setLatLon",
                         changed |-> <<Round2(la), Round2(lo)>> # <<lat, lon>>,
                         hadId |-> nearestWeatherStationId # Null]
             /\ UNCHANGED usedLatLon

----------------------------------------------------------------------------
(* Rain fetcher *)

apiUrls == <<"br-gpsgadget-new.azurewebsites.net", "gps.buienradar.nl">>
EndpointIds == 1..Len(apiUrls)

\* what one endpoint's request callback is handed: a transport error, a body that
\* does not match rainDataRegex, or a body with n tokens whose first time is hhmm
Replies ==
    {[kind |-> "error"], [kind |-> "nomatch"]} \cup
    [kind : {"body"}, n : TokenCounts, hhmm : TokenTimes]

\* body && body.match(rainDataRegex)
MatchesRainData(reply) == reply.kind = "body"

\* last, after a step that returns nothing to the caller (a callback)
Callback == [op |-> "callback"]

\* the state of a call before getRawRainData has run for it
NoCall == [tag |-> "nocall"]

\* getRawRainData once the location test passed: the two requests and the timer
\* start.  loc: the coordinates in the urls of the requests that race (<<>> once
\* the race is settled); ep[i]: whether endpoint i's callback has run; raw: the
\* promise getRawRainData returned; result: the promise getRainData returned
NewCall ==
    [tag |-> "call", loc |-> <<lat, lon>>, responseCounter |-> 0,
     ep |-> [i \in EndpointIds |-> FALSE], timer |-> "pending",
     raw |-> "pending", result |-> Pending]

\* !this.lat || !this.lon
LocationFalsy == lat = 0 \/ lon = 0

\* the else-if of the request callback: responseCounter === urlList.length
AllResponded(call) == call.responseCounter = Len(apiUrls)

\* a race that a reply without rain data rejects at once
RaceFailsOnBadReply(call, reply) ==
    IF call.raw # "pending" THEN call.raw
    ELSE IF MatchesRainData(reply) THEN "resolved"
    ELSE "NoRainData"

\* what the race is settled to after an endpoint's callback ran with reply
RaceAfterReply(call, reply) ==
    IF call.raw # "pending" THEN call.raw
    ELSE IF MatchesRainData(reply) THEN "resolved"
    ELSE IF AllResponded(call) THEN "NoRainData"
    ELSE "pending"

\* a race whose timer rejects nothing
RaceIgnoresTimeout(call) == call.raw

\* what the race is settled to after the 5 second timer fired
RaceAfterTimeout(call) ==
    IF call.raw # "pending" THEN call.raw ELSE "timeout"

----------------------------------------------------------------------------
(* Rain indication *)

\* Buienradar.rainIndicators, in thousandths
rainIndicators ==
    [NO_RAIN |-> 100, LIGHT_RAIN |-> 2500, MODERATE_RAIN |-> 10000,
     HEAVY_RAIN |-> 50000, VIOLENT_RAIN |-> 51000]

\* the boolean false, as a return value
False == [tag |-> "false"]
Indication(v) == [tag |-> "indication", value |-> v]

\* isNaN(amount): Number(amount) is NaN
isNaN(amount) == amount.kind # "number"

\* a ladder whose first interval is closed on the right
getRainIndicationClosed(amount) ==
    IF isNaN(amount) THEN False
    ELSE IF amount.v <= 100 THEN Indication(rainIndicators.NO_RAIN)
    ELSE IF amount.v < 2500 THEN Indication(rainIndicators.LIGHT_RAIN)
    ELSE IF amount.v < 10000 THEN Indication(rainIndicators.MODERATE_RAIN)
    ELSE IF amount.v < 50000 THEN Indication(rainIndicators.HEAVY_RAIN)
    ELSE Indication(rainIndicators.VIOLENT_RAIN)

\* getRainIndication(amount)
getRainIndication(amount) ==
    IF isNaN(amount) THEN False
    ELSE IF amount.v < 100 THEN Indication(rainIndicators.NO_RAIN)
    ELSE IF amount.v < 2500 THEN Indication(rainIndicators.LIGHT_RAIN)
    ELSE IF amount.v < 10000 THEN Indication(rainIndicators.MODERATE_RAIN)
    ELSE IF amount.v < 50000 THEN Indication(rainIndicators.HEAVY_RAIN)
    ELSE Indication(rainIndicators.VIOLENT_RAIN)

----------------------------------------------------------------------------
(* Rain parser and cache *)

\* the timestamp of the first sample: today at hhmm, moved by a day when the code's
\* test (previousTime.getTime() - Date.now() > 12 * 3600 * 1000) is true
FirstSampleTime(now, hhmm) ==
    IF hhmm - now > HalfDayMinutes THEN hhmm + DayMinutes ELSE hhmm

\* the parsed result: one sample per token, 5 minutes apart (sample times only)
ParseRainData(n, hhmm, now) ==
    [i \in 1..n |-> FirstSampleTime(now, hhmm) + SampleStep * (i - 1)]

\* result && result.length && result.length > 1
EnoughSamples(result) == Len(result) > 1

\* the cache test reading the closure variable rainDataCache, which is never filled
ServeFromClosureCache(forceRefresh) ==
    ~forceRefresh /\ requestCacheTimeout # 0 /\ rainDataCache \notin {"undefined", "null"}

\* the cache test of getRainData
ServeFromCache(forceRefresh) ==
    ~forceRefresh /\ requestCacheTimeout # 0 /\ rainData # Null

\* getRainData(forceRefresh)
GetRainData(forceRefresh) ==
    /\ checkLocationChange
    /\ IF ServeFromCache(forceRefresh)
       THEN /\ last' = [op |-> "getRainData", force |-> forceRefresh, kind |-> "cached"]
            /\ UNCHANGED <<calls, ncalls>>
       ELSE IF LocationFalsy
       THEN /\ last' = [op |-> "getRainData", force |-> forceRefresh, kind |-> "LocationNotSet"]
            /\ UNCHANGED <<calls, ncalls>>
       ELSE /\ ncalls < MaxCalls
            /\ ncalls' = ncalls + 1
            /\ calls' = [calls EXCEPT ![ncalls + 1] = NewCall]
            /\ last' = [op |-> "getRainData", force |-> forceRefresh, kind |-> "fetch"]
    /\ UNCHANGED <<lat, lon, requestCacheTimeout, rainData, rainDataCacheTimeout, rainTimers>>

\* a then-callback that leaves the cache as it is when the samples are too few
ThenParseKeepsCache(c, reply, now) ==
    LET result == ParseRainData(reply.n, reply.hhmm, now)
    IN  IF EnoughSamples(result)
        THEN [result |-> Resolved(result),
              rainData |-> [times |-> result, call |-> c, loc |-> calls[c].loc],
              rainTimers |-> (rainTimers \ {rainDataCacheTimeout}) \cup {c},
              rainDataCacheTimeout |-> c]
        ELSE [result |-> Rejected("NoData"),
              rainData |-> rainData,
              rainTimers |-> rainTimers,
              rainDataCacheTimeout |-> rainDataCacheTimeout]

\* a then-callback that installs its TTL timer without clearTimeout
ThenParseKeepsTimer(c, reply, now) ==
    LET result == ParseRainData(reply.n, reply.hhmm, now)
    IN  IF EnoughSamples(result)
        THEN [result |-> Resolved(result),
              rainData |-> [times |-> result, call |-> c, loc |-> calls[c].loc],
              rainTimers |-> rainTimers \cup {c},
              rainDataCacheTimeout |-> c]
        ELSE [result |-> Rejected("NoData"),
              rainData |-> Null,
              rainTimers |-> rainTimers,
              rainDataCacheTimeout |-> rainDataCacheTimeout]

\* the then-callback of getRainData for call c, run with the body of reply at
\* Date.now() = now: the cache fields and the call's result afterwards
ThenParse(c, reply, now) ==
    LET result == ParseRainData(reply.n, reply.hhmm, now)
    IN  IF EnoughSamples(result)
        THEN [result |-> Resolved(result),
              rainData |-> IF requestCacheTimeout # 0
                           THEN [times |-> result, call |-> c, loc |-> calls[c].loc]
                           ELSE rainData,
              rainTimers |-> IF requestCacheTimeout # 0
                             THEN (rainTimers \ {rainDataCacheTimeout}) \cup {c}
                             ELSE rainTimers,
              rainDataCacheTimeout |-> IF requestCacheTimeout # 0
                                       THEN c ELSE rainDataCacheTimeout]
        ELSE [result |-> Rejected("NoData"),
              rainData |-> Null,
              rainTimers |-> rainTimers,
              rainDataCacheTimeout |-> rainDataCacheTimeout]

\* the request callback of endpoint i of call c, and, when it settles the race,
\* the continuation of getRainData
EndpointReply(c, i, reply, now) ==
    /\ calls[c] # NoCall
    /\ ~calls[c].ep[i]
    /\ LET raw     == RaceAfterReply(calls[c], reply)
           settles == calls[c].raw = "pending" /\ raw # "pending"
       IN  /\ IF settles /\ raw = "resolved"
              THEN LET t == ThenParse(c, reply, now)
                   IN  /\ calls' = [calls EXCEPT ![c].ep[i] = TRUE, ![c].raw = raw,
                                                 ![c].loc = <<>>, ![c].result = t.result]
                       /\ rainData' = t.rainData
                       /\ rainTimers' = t.rainTimers
                       /\ rainDataCacheTimeout' = t.rainDataCacheTimeout
              ELSE /\ calls' = [calls EXCEPT ![c].ep[i] = TRUE, ![c].raw = raw,
                                             ![c].loc = IF settles THEN <<>> ELSE @,
                                             ![c].result = IF settles THEN Rejected(raw) ELSE @]
                   /\ UNCHANGED <<rainData, rainTimers, rainDataCacheTimeout>>
           /\ last' = [op |-> "reply", ep |-> i, match |-> MatchesRainData(reply),
                       late |-> calls[c].raw # "pending"]
    /\ UNCHANGED <<lat, lon, usedLatLon, requestCacheTimeout, rainDataCache,
                   nearestWeatherStationId, ncalls>>

\* the 5 second timer of call c fires: rej(new Error('timeout'))
RaceTimeout(c) ==
    /\ calls[c] # NoCall
    /\ calls[c].timer = "pending"
    /\ LET raw == RaceAfterTimeout(calls[c])
       IN  calls' = [calls EXCEPT ![c].timer = "fired", ![c].raw = raw, ![c].loc = <<>>,
                                  ![c].result = IF calls[c].raw = "pending"
                                                THEN Rejected(raw) ELSE @]
    /\ last' = Callback
    /\ UNCHANGED <<lat, lon, usedLatLon, requestCacheTimeout, rainData, rainDataCacheTimeout,
                   rainTimers, rainDataCache, nearestWeatherStationId, ncalls>>

\* the TTL timer with handle h fires: () => this.rainData = null
RainCacheExpire(h) ==
    /\ h \in rainTimers
    /\ rainTimers' = rainTimers \ {h}
    /\ rainData' = Null
    /\ last' = Callback
    /\ UNCHANGED <<lat, lon, usedLatLon, requestCacheTimeout, rainDataCacheTimeout,
                   rainDataCache, nearestWeatherStationId, calls, ncalls>>

----------------------------------------------------------------------------
(* Feed fetcher and cache *)

\* the fields of a weerstation element the lookup reads.  A field value is a
\* string: "absent" (the element has no such field), "-" (the sentinel), a
\* reading, or Zero for the number 0 that the lookup writes into regenMMPU
Zero == "0 (number)"
StationSites ==
    {[stationcode |-> "6260", lat |-> 5222, lon |-> 689],
     [stationcode |-> "6290", lat |-> 5225, lon |-> 689]}
\* the readings (luchtdruk, regenMMPU) a station may carry
StationReadings == {<<"1015", "-">>, <<"-", "0.5">>, <<"absent", "0.5">>}

Station(site, druk, regen) ==
    [stationcode |-> site.stationcode, lat |-> site.lat, lon |-> site.lon,
     luchtdruk |-> druk, regenMMPU |-> regen]

\* the documents the host may serve: both stations, in either order
FeedDocs ==
    {<<Station(a, ra[1], ra[2]), Station(b, rb[1], rb[2])>> :
        <<a, b>> \in {x \in StationSites \X StationSites : x[1] # x[2]},
        <<ra, rb>> \in StationReadings \X StationReadings}

\* what the request of getRawFeedData ends with: an 'error' event, or a body that
\* the xml parser rejects, that lacks buienradarnl.weergegevens, or that is the
\* document
FeedReplies == {"error", "unparseable", "noenvelope", "document"}

NoFeed == [tag |-> "nofeed"]

\* the promise getFeedData assigns to feedDataCache, while the request is out
NewFeed == [tag |-> "pending"]

\* a settled promise that neither feedDataCache nor a waiting lookup refers to:
\* nothing can read its value any more
Dropped == [tag |-> "dropped"]

Collect(allFeeds, cache, waiting) ==
    [f \in FeedIds |->
        IF /\ allFeeds[f].tag \in {"resolved", "rejected"}
           /\ f # cache
           /\ \A k \in 1..Len(waiting) : waiting[k].feed # f
        THEN Dropped ELSE allFeeds[f]]

\* a parse callback that rejects a missing envelope and keeps the cache entry
FeedParseKeepsCache(f, reply) ==
    IF reply = "unparseable"
    THEN [promise |-> Rejected("ParseError"), feedDataCache |-> 0,
          feedTimers |-> feedTimers]
    ELSE IF reply = "noenvelope"
    THEN [promise |-> Rejected("InvalidFeedResponse"), feedDataCache |-> feedDataCache,
          feedTimers |-> feedTimers]
    ELSE [promise |-> Resolved(feedDoc), feedDataCache |-> feedDataCache,
          feedTimers |-> IF requestCacheTimeout # 0
                         THEN feedTimers \cup {f} ELSE feedTimers]

\* the callback of xmlParser.parseString in getFeedData for promise f: what the
\* promise is settled to, feedDataCache and the TTL timers afterwards
FeedParse(f, reply) ==
    IF reply = "unparseable"
    THEN [promise |-> Rejected("ParseError"), feedDataCache |-> 0,
          feedTimers |-> feedTimers]
    ELSE IF reply = "noenvelope"
    THEN [promise |-> Rejected("InvalidFeedResponse"), feedDataCache |-> 0,
          feedTimers |-> feedTimers]
    ELSE [promise |-> Resolved(feedDoc), feedDataCache |-> feedDataCache,
          feedTimers |-> IF requestCacheTimeout # 0
                         THEN feedTimers \cup {f} ELSE feedTimers]

\* a cache test that passes only once the cached promise is settled
ServeFeedFromSettledCache ==
    requestCacheTimeout # 0 /\ feedDataCache # 0 /\ feeds[feedDataCache] # NewFeed

\* getFeedData(): the promise returned (its number), whether it is a new one
ServeFeedFromCache == requestCacheTimeout # 0 /\ feedDataCache # 0

getFeedData ==
    IF ServeFeedFromCache
    THEN /\ UNCHANGED <<feedDataCache, feeds, nfeeds>>
    ELSE /\ nfeeds < MaxFeeds
         /\ nfeeds' = nfeeds + 1
         /\ feeds' = [feeds EXCEPT ![nfeeds + 1] = NewFeed]
         /\ feedDataCache' = nfeeds + 1

\* a direct call of getFeedData
FeedRequest ==
    /\ getFeedData
    /\ last' = [op |-> "getFeedData", fetch |-> ~ServeFeedFromCache]
    /\ UNCHANGED <<feedDoc, feedTimers, lookups>>

\* the request of promise f ends: 'error' rejects the promise of getRawFeedData,
\* so the then of getFeedData does not run; otherwise the body is parsed
FeedReply(f, reply) ==
    /\ feeds[f] = NewFeed
    /\ IF reply = "error"
       THEN /\ feeds' = Collect([feeds EXCEPT ![f] = Rejected("TransportError")],
                                feedDataCache, lookups)
            /\ last' = [op |-> "feedReply", promise |-> Rejected("TransportError")]
            /\ UNCHANGED <<feedDataCache, feedTimers>>
       ELSE LET p == FeedParse(f, reply)
            IN  /\ feeds' = Collect([feeds EXCEPT ![f] = p.promise], p.feedDataCache, lookups)
                /\ feedDataCache' = p.feedDataCache
                /\ feedTimers' = p.feedTimers
                /\ last' = [op |-> "feedReply",
                            promise |-> IF p.promise.tag = "rejected" THEN p.promise
                                        ELSE [tag |-> "resolved"]]
    /\ UNCHANGED <<feedDoc, nfeeds, lookups>>

\* the TTL timer that promise f installed fires: () => feedDataCache = null
FeedCacheExpire(f) ==
    /\ f \in feedTimers
    /\ feedTimers' = feedTimers \ {f}
    /\ feedDataCache' = 0
    /\ feeds' = Collect(feeds, 0, lookups)
    /\ last' = Callback
    /\ UNCHANGED <<feedDoc, nfeeds, lookups>>

----------------------------------------------------------------------------
(* Nearest station selector *)

RainField == "regenMMPU"
ParamLists == {<<>>, <<"luchtdruk">>, <<RainField>>, <<"luchtdruk", RainField>>}

Abs(x) == IF x < 0 THEN -x ELSE x

\* geodist(location, {lat, lon}): the delegated distance, here in hundredths of a
\* degree along the two axes
geodist(loc, ws) == Abs(loc[1] - ws.lat) + Abs(loc[2] - ws.lon)

\* the field test without the comparison with the sentinel
HasFieldTruthy(ws, param) == ws[param] \notin {"absent", Zero}

\* weatherStation[param] && weatherStation[param] !== '-'
HasField(ws, param) == ws[param] \notin {"absent", Zero} /\ ws[param] # "-"

\* the skip flag of the forEach over requireParams
SkipStation(ws, requireParams) ==
    \E k \in 1..Len(requireParams) : ~HasField(ws, requireParams[k])

\* !nearestDistance || dist < nearestDistance (nearestDistance: <<>> while undefined)
IsNearer(dist, nearestDistance) ==
    nearestDistance = <<>> \/ nearestDistance[1] = 0 \/ dist < nearestDistance[1]

\* the forEach of findNearestWeatherStation over stations k..Len(list), from the
\* accumulator acc = [result, nearestDistance] (result: <<>> while undefined)
RECURSIVE ScanStations(_, _, _, _, _)
ScanStations(list, k, requireParams, loc, acc) ==
    IF k > Len(list) THEN acc
    ELSE LET ws   == list[k]
             dist == geodist(loc, ws)
         IN  IF SkipStation(ws, requireParams)
             THEN ScanStations(list, k + 1, requireParams, loc, acc)
             ELSE IF IsNearer(dist, acc.nearestDistance)
             THEN ScanStations(list, k + 1, requireParams, loc,
                               [result |-> <<k>>, nearestDistance |-> <<dist>>])
             ELSE ScanStations(list, k + 1, requireParams, loc, acc)

\* findNearestWeatherStation(): the index of the station found, <<>> when none
findNearestWeatherStation(list, requireParams, loc) ==
    ScanStations(list, 1, requireParams, loc,
                 [result |-> <<>>, nearestDistance |-> <<>>]).result

\* nearestWeatherStation.regenMMPU === '-' => 0, written into the feed data
NormalizeRain(list, k) ==
    IF list[k].regenMMPU = "-" THEN [list EXCEPT ![k].regenMMPU = Zero] ELSE list

\* the then-callback of getNearestWeatherStationData on the feed data `list`:
\* the promise it settles, how the station was found, the memoized id and the
\* feed data afterwards.  The memoized id holds the station code and, beside it,
\* the coordinates its scan used
StationLookup(list, requireParams) ==
    LET found == findNearestWeatherStation(list, requireParams, <<lat, lon>>)
        none  == [promise |-> Rejected("NoStationFound"), how |-> "scan",
                  id |-> nearestWeatherStationId, data |-> list]
    IN  IF Len(requireParams) > 0
        THEN IF found = <<>> THEN none
             ELSE [promise |-> Resolved(NormalizeRain(list, found[1])[found[1]]),
                   how |-> "scan", id |-> nearestWeatherStationId,
                   data |-> NormalizeRain(list, found[1])]
        ELSE IF nearestWeatherStationId = Null
        THEN IF found = <<>> THEN none
             ELSE [promise |-> Resolved(NormalizeRain(list, found[1])[found[1]]),
                   how |-> "scan",
                   id |-> [code |-> list[found[1]].stationcode, loc |-> <<lat, lon>>],
                   data |-> NormalizeRain(list, found[1])]
        ELSE \* data.find: data is the weergegevens object, which has no find
             [promise |-> Rejected("TypeError"), how |-> "memo",
              id |-> nearestWeatherStationId, data |-> list]

\* getNearestWeatherStationData(requireParams), up to the then on the feed promise
StationRequest(requireParams) ==
    /\ Len(lookups) < MaxLookups
    /\ checkLocationChange
    /\ getFeedData
    /\ lookups' = Append(lookups, [feed |-> feedDataCache', requireParams |-> requireParams])
    /\ last' = Callback
    /\ UNCHANGED <<lat, lon, requestCacheTimeout, feedDoc, feedTimers>>

\* the waiting lookups without the k-th
Remove(seq, k) == [j \in 1..(Len(seq) - 1) |-> IF j < k THEN seq[j] ELSE seq[j + 1]]

\* the feed promise of waiting lookup k is settled (and no earlier lookup waits
\* for the same promise): its then-callback runs, or the rejection passes through
StationCallback(k) ==
    /\ k \in 1..Len(lookups)
    /\ \A j \in 1..(k - 1) : lookups[j].feed # lookups[k].feed
    /\ feeds[lookups[k].feed].tag \in {"resolved", "rejected"}
    /\ LET f  == lookups[k].feed
           rp == lookups[k].requireParams
       IN  IF feeds[f].tag = "rejected"
           THEN /\ last' = [op |-> "station", requireParams |-> rp, how |-> "none",
                            promise |-> feeds[f]]
                /\ feeds' = Collect(feeds, feedDataCache, Remove(lookups, k))
                /\ UNCHANGED nearestWeatherStationId
           ELSE LET r == StationLookup(feeds[f].value, rp)
                IN  /\ last' = [op |-> "station", requireParams |-> rp, how |-> r.how,
                                promise |-> r.promise]
                    /\ nearestWeatherStationId' = r.id
                    /\ feeds' = Collect([feeds EXCEPT ![f] = Resolved(r.data)],
                                        feedDataCache, Remove(lookups, k))
    /\ lookups' = Remove(lookups, k)
    /\ UNCHANGED <<lat, lon, usedLatLon, requestCacheTimeout, rainDataCache,
                   feedDoc, feedDataCache, nfeeds, feedTimers>>

----------------------------------------------------------------------------
(* Weather forecast *)

\* a parsed element with text content (its text is under '$'), a string, undefined
Element(text) == [tag |-> "element", text |-> text]
String(text) == [tag |-> "string", text |-> text]
Undefined == [tag |-> "undefined"]

\* the verwachting_meerdaags elements the host may serve: the dag-plusN children
\* present (dagplus, a day's record standing for itself by its number), no dagen
\* child, and the two text elements
ForecastDocs ==
    [dagplus : SUBSET (1..MaxDays), dagen : {Undefined},
     tekst_middellang : {Element("middellang")}, tekst_lang : {Element("lang")}]

\* the while loop: dag-plus1, dag-plus2, ... up to the first missing one
RECURSIVE LeadingDays(_, _)
LeadingDays(dagplus, i) ==
    IF i \in dagplus THEN <<i>> \o LeadingDays(dagplus, i + 1) ELSE <<>>

\* x['$']: the text of an element, undefined on a string, a TypeError on undefined
Unwrap(x) ==
    IF x.tag = "element" THEN String(x.text)
    ELSE IF x.tag = "string" THEN Undefined
    ELSE [tag |-> "TypeError"]

\* the then-callback of getWeatherForecast on data.verwachting_meerdaags = vm: the
\* promise it settles and verwachting_meerdaags (part of the cached feed data)
\* afterwards
WeatherForecast(vm) ==
    LET days == LeadingDays(vm.dagplus, 1)
        rest == vm.dagplus \ {days[j] : j \in 1..Len(days)}
        mid  == Unwrap(vm.tekst_middellang)
        lang == Unwrap(vm.tekst_lang)
    IN  IF mid.tag = "TypeError"
        THEN [promise |-> Rejected("TypeError"),
              data |-> [vm EXCEPT !.dagplus = rest, !.dagen = days]]
        ELSE IF lang.tag = "TypeError"
        THEN [promise |-> Rejected("TypeError"),
              data |-> [vm EXCEPT !.dagplus = rest, !.dagen = days,
                                  !.tekst_middellang = mid]]
        ELSE LET out == [dagplus |-> rest, dagen |-> days,
                         tekst_middellang |-> mid, tekst_lang |-> lang]
             IN  [promise |-> Resolved(out), data |-> out]

\* getWeatherForecast(), up to the then on the feed promise
ForecastRequest ==
    /\ Len(lookups) < MaxLookups
    /\ getFeedData
    /\ lookups' = Append(lookups, [feed |-> feedDataCache', op |-> "forecast"])
    /\ last' = Callback
    /\ UNCHANGED <<feedDoc, feedTimers>>

\* the feed promise of waiting call k is settled (and no earlier call waits for the
\* same promise): the then-callback runs, or the rejection passes through
ForecastCallback(k) ==
    /\ k \in 1..Len(lookups)
    /\ \A j \in 1..(k - 1) : lookups[j].feed # lookups[k].feed
    /\ feeds[lookups[k].feed].tag \in {"resolved", "rejected"}
    /\ LET f == lookups[k].feed
       IN  IF feeds[f].tag = "rejected"
           THEN /\ last' = [op |-> "forecast", feed |-> f, promise |-> feeds[f]]
                /\ feeds' = Collect(feeds, feedDataCache, Remove(lookups, k))
           ELSE LET r == WeatherForecast(feeds[f].value)
                IN  /\ last' = [op |-> "forecast", feed |-> f, promise |-> r.promise]
                    /\ feeds' = Collect([feeds EXCEPT ![f] = Resolved(r.data)],
                                        feedDataCache, Remove(lookups, k))
    /\ lookups' = Remove(lookups, k)
    /\ UNCHANGED <<feedDoc, feedDataCache, nfeeds, feedTimers>>

----------------------------------------------------------------------------
(* The instance after construction, and the specifications *)

\* new Buienradar({lat, lon, requestCacheTimeout}) with truthy lat and lon
Constructed ==
    /\ lat \in {Round2(x) : x \in LatInputs \ {0}}
    /\ lon \in {Round2(x) : x \in LonInputs \ {0}}
    /\ usedLatLon = <<>>
    /\ requestCacheTimeout \in {CacheTimeoutOf(t) : t \in TimeoutInputs}
    /\ rainData = Null
    /\ rainDataCacheTimeout = 0
    /\ rainTimers = {}
    /\ rainDataCache = "undefined"
    /\ nearestWeatherStationId = Null
    /\ calls = [c \in CallIds |-> NoCall]
    /\ ncalls = 0
    /\ last = [op |-> "new"]
    /\ feedDataCache = 0
    /\ feeds = [f \in FeedIds |-> NoFeed]
    /\ nfeeds = 0
    /\ feedTimers = {}
    /\ lookups = <<>>

ParseIdle == [tag |-> "idle"]

rainOnly == <<rainData, rainDataCacheTimeout, rainTimers, calls, ncalls>>

\* the rain side: location, rain fetcher, rain parser and cache
Init == Constructed /\ feedDoc = <<>> /\ parse = ParseIdle

SetLocation ==
    \E form \in {"pair", "object"}, la \in LatInputs, lo \in LonInputs :
        /\ SetLatLon(form, la, lo)
        /\ UNCHANGED <<requestCacheTimeout, rainOnly, feedVars, parse>>

RainRequest == \E f \in BOOLEAN : GetRainData(f) /\ UNCHANGED <<feedVars, parse>>

RainReply ==
    \E c \in CallIds, i \in EndpointIds, r \in Replies, now \in Nows :
        EndpointReply(c, i, r, now) /\ UNCHANGED <<feedVars, parse>>

RainTimeoutOf(c) == RaceTimeout(c) /\ UNCHANGED <<feedVars, parse>>

RainTimeout == \E c \in CallIds : RainTimeoutOf(c)

RainExpire == \E h \in CallIds : RainCacheExpire(h) /\ UNCHANGED <<feedVars, parse>>

Next == SetLocation \/ RainRequest \/ RainReply \/ RainTimeout \/ RainExpire

Spec == Init /\ [][Next]_vars

\* setTimeout callbacks always run: the 5 second timer of every call fires
FairSpec == Spec /\ \A c \in CallIds : WF_vars(RainTimeoutOf(c))

\* the feed side: location, feed fetcher and cache, nearest station selector
FeedInit == Constructed /\ feedDoc \in FeedDocs /\ parse = ParseIdle

locOnly == <<lat, lon, usedLatLon, requestCacheTimeout, rainDataCache, nearestWeatherStationId>>

FeedGet == FeedRequest /\ UNCHANGED <<locOnly, rainOnly, parse>>

FeedAnswer ==
    \E f \in FeedIds, r \in FeedReplies :
        FeedReply(f, r) /\ UNCHANGED <<locOnly, rainOnly, parse>>

FeedExpire == \E f \in FeedIds : FeedCacheExpire(f) /\ UNCHANGED <<locOnly, rainOnly, parse>>

StationGet == \E rp \in ParamLists : StationRequest(rp) /\ UNCHANGED <<rainOnly, parse>>

StationAnswer == \E k \in 1..MaxLookups : StationCallback(k) /\ UNCHANGED <<rainOnly, parse>>

FeedNext == SetLocation \/ FeedGet \/ FeedAnswer \/ FeedExpire \/ StationGet \/ StationAnswer

FeedSpec == FeedInit /\ [][FeedNext]_vars

\* the rain parser on its own: one run of the replace callback of getRainData over
\* a text of parse.n tokens whose first time is parse.hhmm, at Date.now() = parse.now
ParseInit ==
    /\ Constructed /\ feedDoc = <<>>
    /\ parse \in [tag : {"input"}, now : ClockTimes, hhmm : ClockTimes, n : 1..MaxTokens]

ParseRun ==
    /\ parse.tag = "input"
    /\ parse' = [tag |-> "parsed", now |-> parse.now, hhmm |-> parse.hhmm, n |-> parse.n,
                 result |-> ParseRainData(parse.n, parse.hhmm, parse.now)]
    /\ UNCHANGED <<rainVars, feedVars>>

ParseNext == ParseRun

ParseSpec == ParseInit /\ [][ParseNext]_vars

\* the rain side with setLatLon called with a latitude of 0 as well
SetLocationZero ==
    \E form \in {"pair", "object"}, la \in ZeroLatInputs, lo \in LonInputs :
        /\ SetLatLon(form, la, lo)
        /\ UNCHANGED <<requestCacheTimeout, rainOnly, feedVars, parse>>

ZeroNext == SetLocationZero \/ RainRequest \/ RainReply \/ RainTimeout \/ RainExpire

ZeroSpec == Init /\ [][ZeroNext]_vars

\* the two caches side by side: the rain side and direct getFeedData calls
CacheNext ==
    \/ SetLocation \/ RainRequest \/ RainReply \/ RainTimeout \/ RainExpire
    \/ FeedGet \/ FeedAnswer \/ FeedExpire

CacheSpec == Init /\ [][CacheNext]_vars

\* the forecast side: feed fetcher and cache, getWeatherForecast
ForecastInit == Constructed /\ feedDoc \in ForecastDocs /\ parse = ParseIdle

ForecastGet == ForecastRequest /\ UNCHANGED <<locOnly, rainOnly, parse>>

ForecastAnswer ==
    \E k \in 1..MaxLookups : ForecastCallback(k) /\ UNCHANGED <<locOnly, rainOnly, parse>>

ForecastNext == FeedGet \/ FeedAnswer \/ FeedExpire \/ ForecastGet \/ ForecastAnswer

ForecastSpec == ForecastInit /\ [][ForecastNext]_vars

\* getRainIndication on its own: two arguments are classified
ClassifyInit ==
    /\ Constructed /\ feedDoc = <<>>
    /\ parse \in [tag : {"amounts"}, a : AmountInputs, b : AmountInputs]

ClassifyRun ==
    /\ parse.tag = "amounts"
    /\ parse' = [tag |-> "classified", a |-> parse.a, b |-> parse.b,
                 ra |-> getRainIndication(parse.a), rb |-> getRainIndication(parse.b)]
    /\ UNCHANGED <<rainVars, feedVars>>

ClassifyNext == ClassifyRun

ClassifySpec == ClassifyInit /\ [][ClassifyNext]_vars

----------------------------------------------------------------------------
(* Claims *)

\* C1: after setLatLon changed the coordinates, the next getRainData() without
\* forceRefresh does not return the cached sequence (the rain cache is empty).
C1_SetLocationEmptiesRainCache ==
    [][(last.op = "setLatLon" /\ last.changed /\ last'.op = "getRainData" /\ ~last'.force)
         => last'.kind # "cached"]_vars

\* C2: a successful fetch leaves its sequence in the cache with a pending TTL timer;
\* while an entry is cached, getRainData() without forceRefresh returns it and
\* issues no fetch; when the TTL timer fires the cache is empty, and getRainData()
\* on an empty cache (location set) issues a new fetch.
C2_CacheRoundTrip ==
    /\ [][\A c \in CallIds :
            (calls[c] # NoCall /\ calls[c].result = Pending
               /\ calls'[c].result.tag = "resolved")
            => /\ rainData' # Null
               /\ rainData'.call = c
               /\ rainData'.times = calls'[c].result.value
               /\ c \in rainTimers']_vars
    /\ [][(last'.op = "getRainData" /\ ~last'.force /\ rainData # Null)
            => (last'.kind = "cached" /\ calls' = calls /\ ncalls' = ncalls
                /\ rainData' = rainData)]_vars
    /\ [][(calls' = calls /\ rainTimers' # rainTimers) => rainData' = Null]_vars
    /\ [][(last'.op = "getRainData" /\ rainData = Null /\ ~LocationFalsy)
            => (last'.kind = "fetch" /\ ncalls' = ncalls + 1
                /\ calls'[ncalls'].raw = "pending")]_vars

C2_Witness ==
    /\ last.op = "getRainData" /\ last.kind = "cached"
    /\ ncalls = 1
    /\ rainData # Null /\ rainData.call \in rainTimers

\* C3: once both endpoints have replied and neither body matched (the 5 second
\* timer still pending), the call is rejected with NoRainData.
C3_NoRainDataWhenAllReplied ==
    \A c \in CallIds :
        (calls[c] # NoCall /\ (\A i \in EndpointIds : calls[c].ep[i])
           /\ calls[c].raw # "resolved" /\ calls[c].timer = "pending")
        => calls[c].raw = "NoRainData"

\* C4: every getRawRainData call settles, and settles once: it is resolved only by
\* an endpoint's reply while the timer is pending, it is settled at the latest
\* when the 5 second timer fires, and callbacks of a settled call change neither
\* its result nor the rain cache.
C4_SettlesOnce ==
    /\ [][\A c \in CallIds :
            (calls[c] # NoCall /\ calls[c].raw # "pending")
            => /\ calls'[c].raw = calls[c].raw
               /\ calls'[c].result = calls[c].result
               /\ (calls'[c] # calls[c]
                     => <<rainData, rainTimers, rainDataCacheTimeout>>'
                          = <<rainData, rainTimers, rainDataCacheTimeout>>)]_vars
    /\ [][\A c \in CallIds :
            (calls[c] # NoCall /\ calls[c].raw = "pending" /\ calls'[c].raw = "resolved")
            => /\ calls[c].timer = "pending" /\ calls'[c].timer = "pending"
               /\ last'.op = "reply" /\ last'.match
               /\ calls'[c].ep # calls[c].ep]_vars
    /\ [][\A c \in CallIds :
            (calls[c] # NoCall /\ calls'[c].timer = "fired")
            => (calls'[c].raw # "pending" /\ calls'[c].result # Pending)]_vars
    /\ \A c \in CallIds :
            (calls[c] # NoCall) ~> (calls[c] # NoCall /\ calls[c].raw # "pending"
                                     /\ calls[c].result # Pending)

C4_Witness ==
    \E c \in CallIds :
        /\ calls[c] # NoCall /\ calls[c].raw = "resolved"
        /\ calls[c].timer = "fired" /\ \A i \in EndpointIds : calls[c].ep[i]
        /\ rainData # Null /\ rainData.call = c

\* C5: with the timer pending, a reply that is a transport error or a malformed
\* body leaves the call pending, and a well-formed body from the other endpoint
\* afterwards resolves it.
C5_ErrorDoesNotFailRace ==
    /\ [][\A c \in CallIds :
            (calls[c] # NoCall /\ calls[c].raw = "pending"
               /\ calls'[c].ep # calls[c].ep /\ last'.op = "reply" /\ ~last'.match)
            => (calls'[c].raw = "pending" /\ calls'[c].result = Pending)]_vars
    /\ [][\A c \in CallIds :
            (calls[c] # NoCall /\ calls[c].raw = "pending"
               /\ (\E j \in EndpointIds : calls[c].ep[j])
               /\ calls'[c].ep # calls[c].ep /\ last'.op = "reply" /\ last'.match)
            => (calls'[c].raw = "resolved" /\ calls'[c].result.tag # "pending"
                /\ calls'[c].result # Rejected("timeout")
                /\ calls'[c].result # Rejected("NoRainData"))]_vars

\* endpoint 1 failed first and endpoint 2 then resolved the call
C5_Witness ==
    \E c \in CallIds :
        /\ calls[c] # NoCall /\ calls[c].raw = "resolved"
        /\ calls[c].timer = "pending" /\ \A i \in EndpointIds : calls[c].ep[i]
        /\ last.op = "reply" /\ last.ep = 2 /\ last.match /\ ~last.late
        /\ calls[c].result.tag = "resolved"

\* C6: a then-callback whose text yields fewer than 2 samples rejects the call
\* (NoData) and sets the rain cache to null, so that getRainData() is not served
\* from the cache afterwards.
C6_TooFewSamplesClearsCache ==
    /\ [](\A c \in CallIds, r \in Replies, now \in Nows :
            (MatchesRainData(r) /\ Len(ParseRainData(r.n, r.hhmm, now)) < 2)
            => (ThenParse(c, r, now).result = Rejected("NoData")
                /\ ThenParse(c, r, now).rainData = Null))
    /\ [][\A c \in CallIds :
            (calls[c] # NoCall /\ calls[c].result = Pending
               /\ calls'[c].result = Rejected("NoData"))
            => (rainData' = Null /\ ~ServeFromCache(FALSE)')]_vars

\* a forceRefresh call failed while the entry of an earlier fetch was cached
C6_Witness ==
    \E c \in CallIds :
        /\ calls[c] # NoCall /\ calls[c].result = Rejected("NoData")
        /\ last.op = "reply" /\ ~last.late /\ last.match
        /\ rainData = Null
        /\ rainDataCacheTimeout # 0 /\ rainDataCacheTimeout # c
        /\ rainDataCacheTimeout \in rainTimers

\* C7: the first sample's timestamp is today at HH:MM, moved forward by 24 hours
\* exactly when that instant lies more than 12 hours before now.
ClaimedFirstSampleTime(now, hhmm) ==
    IF now - hhmm > HalfDayMinutes THEN hhmm + DayMinutes ELSE hhmm

C7_FirstSampleRollsForward ==
    parse.tag = "parsed" => parse.result[1] = ClaimedFirstSampleTime(parse.now, parse.hhmm)

\* C8: setLatLon clears the memoized station id; a memoized id was always
\* memoized by a scan from the current coordinates; a lookup without
\* requireParams that finds no memoized id scans.
C8_SetLocationClearsStationId ==
    /\ [](nearestWeatherStationId # Null => nearestWeatherStationId.loc = <<lat, lon>>)
    /\ [][<<lat, lon>>' # <<lat, lon>> => nearestWeatherStationId' = Null]_vars
    /\ [][(last'.op = "station" /\ Len(lookups') < Len(lookups)
             /\ last'.requireParams = <<>> /\ last'.how # "none"
             /\ nearestWeatherStationId = Null)
            => (last'.how = "scan"
                /\ (last'.promise.tag = "resolved"
                      => /\ nearestWeatherStationId' # Null
                         /\ nearestWeatherStationId'.loc = <<lat, lon>>
                         /\ nearestWeatherStationId'.code = last'.promise.value.stationcode))]_vars

\* setLatLon changed the coordinates while a station id was memoized
C8_Witness ==
    /\ last.op = "setLatLon" /\ last.changed /\ last.hadId
    /\ nearestWeatherStationId = Null

\* the stations the claim excludes: a listed field other than the rain-rate field
\* is absent or the sentinel
ClaimExcludes(ws, requireParams) ==
    \E k \in 1..Len(requireParams) :
        requireParams[k] # RainField /\ ws[requireParams[k]] \in {"absent", "-"}

\* C9: a lookup with a non-empty requireParams never resolves with a station that
\* lacks a listed field other than the rain-rate field, and is rejected with
\* NoStationFound when every station of the feed lacks one.
C9_RequiredFieldsRespected ==
    [][(last'.op = "station" /\ Len(lookups') < Len(lookups) /\ last'.how # "none"
          /\ Len(last'.requireParams) > 0)
         => /\ (last'.promise.tag = "resolved"
                  => ~ClaimExcludes(last'.promise.value, last'.requireParams))
            /\ ((\A k \in 1..Len(feedDoc) : ClaimExcludes(feedDoc[k], last'.requireParams))
                  => last'.promise = Rejected("NoStationFound"))]_vars

\* the station at the instance's coordinates lacks luchtdruk and the other one is
\* returned
C9_Witness ==
    /\ last.op = "station" /\ last.requireParams = <<"luchtdruk">>
    /\ last.promise.tag = "resolved"
    /\ geodist(<<lat, lon>>, last.promise.value) > 0
    /\ \E k \in 1..Len(feedDoc) :
          geodist(<<lat, lon>>, feedDoc[k]) = 0 /\ feedDoc[k].luchtdruk \in {"absent", "-"}

\* C10: when the parse callback rejects the promise (parse error or missing
\* envelope), feedDataCache is null afterwards, and getFeedData() on a null
\* feedDataCache starts a new fetch.
C10_FeedParseFailureClearsCache ==
    /\ [](\A f \in FeedIds, r \in {"unparseable", "noenvelope"} :
            FeedParse(f, r).promise.tag = "rejected" /\ FeedParse(f, r).feedDataCache = 0)
    /\ [][(last'.op = "feedReply" /\ feeds' # feeds /\ last'.promise.tag = "rejected"
             /\ last'.promise # Rejected("TransportError"))
            => feedDataCache' = 0]_vars
    /\ [][(last'.op = "getFeedData" /\ feedDataCache = 0)
            => (last'.fetch /\ nfeeds' = nfeeds + 1 /\ feedDataCache' = nfeeds'
                /\ feeds'[nfeeds'] = NewFeed)]_vars

\* a fetch failed for a missing envelope while feedDataCache held its promise
C10_Witness ==
    /\ last.op = "feedReply" /\ last.promise = Rejected("InvalidFeedResponse")
    /\ nfeeds = 1 /\ feeds[1] = Dropped /\ feedDataCache = 0

\* C11: a number below 0.1 is classified NO_RAIN, from 0.1 and below 2.5
\* LIGHT_RAIN, from 2.5 and below 10 MODERATE_RAIN, from 10 and below 50
\* HEAVY_RAIN, from 50 VIOLENT_RAIN; of two non-negative amounts the larger never
\* gets the lower indication; an argument that is no number gives false.
ClaimedIndication(v) ==
    IF v < 100 THEN "NO_RAIN"
    ELSE IF v < 2500 THEN "LIGHT_RAIN"
    ELSE IF v < 10000 THEN "MODERATE_RAIN"
    ELSE IF v < 50000 THEN "HEAVY_RAIN"
    ELSE "VIOLENT_RAIN"

C12_ZeroCoordinateIsALocation ==
    (last.op = "getRainData" /\ hasLocation) => last.kind # "LocationNotSet"

\* C13: each cache has at most one pending TTL timer; a cached entry of a
\* successful fetch has its own TTL timer pending; a TTL timer that fires while
\* an entry is cached is that entry's own timer; and a cached entry leaves its
\* cache only when its own timer fires or (rain) when a later fetch settles.
C13_OneTimerPerCache ==
    /\ [](Cardinality(rainTimers) <= 1 /\ Cardinality(feedTimers) <= 1)
    /\ [](rainData # Null => rainTimers = {rainData.call})
    /\ []((feedDataCache # 0 /\ feeds[feedDataCache].tag = "resolved")
            => feedTimers = {feedDataCache})
    /\ [][(rainData # Null /\ rainTimers' # rainTimers /\ calls' = calls)
            => (rainTimers' = rainTimers \ {rainData.call} /\ rainData' = Null)]_vars
    /\ [][(rainData # Null /\ rainData' # rainData)
            => \/ rainTimers' = rainTimers \ {rainData.call}
               \/ \E c \in CallIds : calls[c] # NoCall /\ calls[c].result = Pending
                                       /\ calls'[c].result # Pending]_vars
    /\ [][(feedDataCache # 0 /\ feeds[feedDataCache].tag = "resolved"
             /\ feedDataCache' # feedDataCache)
            => (feedTimers' = feedTimers \ {feedDataCache} /\ feedDataCache' = 0)]_vars

\* a second fetch of each cache wrote its entry: the rain refresh while the TTL
\* timer of the first entry was pending, the feed fetch after the first entry expired
C13_Witness ==
    /\ ncalls = 2 /\ calls[1].result.tag = "resolved"
    /\ rainData # Null /\ rainData.call = 2 /\ rainTimers = {2}
    /\ last.op = "reply" /\ ~last.late /\ rainDataCacheTimeout = 2
    /\ rainData.times = calls[2].result.value
    /\ nfeeds = 2 /\ feedDataCache = 2 /\ feeds[2].tag = "resolved" /\ feedTimers = {2}

\* C14: a getFeedData() call (direct, or from getNearestWeatherStationData) made
\* while feedDataCache holds a pending or a resolved promise returns that promise
\* and starts no fetch; at most one feed fetch is pending at any time.
C14_FeedCallsDeduplicated ==
    /\ [](Cardinality({f \in FeedIds : feeds[f] = NewFeed}) <= 1)
    /\ [][(last'.op = "getFeedData" /\ feedDataCache # 0
             /\ feeds[feedDataCache].tag \in {"pending", "resolved"})
            => (~last'.fetch /\ nfeeds' = nfeeds /\ feedDataCache' = feedDataCache
                /\ feeds' = feeds)]_vars
    /\ [][(Len(lookups') > Len(lookups) /\ feedDataCache # 0
             /\ feeds[feedDataCache].tag \in {"pending", "resolved"})
            => (nfeeds' = nfeeds /\ feedDataCache' = feedDataCache /\ feeds' = feeds
                /\ lookups'[Len(lookups')].feed = feedDataCache)]_vars

\* getFeedData() returned the pending promise a station lookup is waiting for
C14_Witness ==
    /\ last.op = "getFeedData" /\ ~last.fetch
    /\ nfeeds = 1 /\ feedDataCache = 1 /\ feeds[1] = NewFeed
    /\ Len(lookups) = 1 /\ lookups[1].feed = 1

\* C15: after a fetch failed with a transport error, feedDataCache does not hold
\* the failed promise, and the next getFeedData() starts a new fetch.
C15_TransportErrorNotCached ==
    /\ [](\A f \in FeedIds : feeds[f] = Rejected("TransportError") => feedDataCache # f)
    /\ [][(last.op = "feedReply" /\ last.promise = Rejected("TransportError")
             /\ last'.op = "getFeedData")
            => last'.fetch]_vars

\* C16: a lookup without requireParams that runs while a station id is memoized
\* (an earlier lookup succeeded and the location did not change since) resolves
\* with the station of the memoized id.
C16_MemoizedStationReused ==
    [][(last'.op = "station" /\ Len(lookups') < Len(lookups) /\ last'.how # "none"
          /\ last'.requireParams = <<>> /\ nearestWeatherStationId # Null)
         => (last'.promise.tag = "resolved"
             /\ last'.promise.value.stationcode = nearestWeatherStationId.code)]_vars

\* C17: the station a scan resolves with is at minimal distance from the current
\* coordinates among the stations of the feed the required-fields filter keeps
\* (a station at distance 0 included).
C17_ScanReturnsNearest ==
    (last.op = "station" /\ last.how = "scan" /\ last.promise.tag = "resolved")
    => \A k \in 1..Len(feedDoc) :
          ~SkipStation(feedDoc[k], last.requireParams)
          => geodist(<<lat, lon>>, last.promise.value) <= geodist(<<lat, lon>>, feedDoc[k])

\* C18: a lookup whose requireParams lists the rain-rate field still resolves when
\* some station has every other listed field (a missing or '-' rain rate excludes
\* no station), and the station it resolves with does not carry the sentinel.
C18_RainFieldExempt ==
    (last.op = "station" /\ last.how = "scan"
       /\ \E j \in 1..Len(last.requireParams) : last.requireParams[j] = RainField)
    => /\ ((\E k \in 1..Len(feedDoc) : ~ClaimExcludes(feedDoc[k], last.requireParams))
             => last.promise.tag = "resolved")
       /\ (last.promise.tag = "resolved" => last.promise.value.regenMMPU # "-")

\* C19: every getWeatherForecast() call served from a resolved feed promise
\* resolves with the dag-plusN records of the served document up to the first
\* missing one, in order, and with the texts of its two text elements (so two
\* calls served from the same cached entry resolve with the same records and texts).
C19_ForecastIsPure ==
    (last.op = "forecast" /\ last.promise # Rejected("TransportError")
       /\ last.promise # Rejected("ParseError")
       /\ last.promise # Rejected("InvalidFeedResponse"))
    => /\ last.promise.tag = "resolved"
       /\ last.promise.value.dagen = LeadingDays(feedDoc.dagplus, 1)
       /\ last.promise.value.tekst_middellang = String(feedDoc.tekst_middellang.text)
       /\ last.promise.value.tekst_lang = String(feedDoc.tekst_lang.text)

\* C20: a sequence getRainData() returns from the cache was fetched for the
\* instance's current coordinates.
C20_CachedDataIsForCurrentLocation ==
    (last.op = "getRainData" /\ last.kind = "cached")
    => (rainData # Null /\ rainData.loc = <<lat, lon>>)

====
